---------------------------- MODULE Spec2Model ----------------------------
(***************************************************************************)
(* A model of the saga runtime of src/saga/runtime.py (SagaRuntime).       *)
(*                                                                         *)
(* The runtime is asyncio code: one event loop, cooperative tasks.  The    *)
(* loop keeps the callbacks it has been asked to run in a first-in         *)
(* first-out list (ready) and runs them one at a time: the step of a task  *)
(* (from one suspension point to the next) or the callback by which a      *)
(* TaskGroup learns that one of its tasks is done.  The tasks are the      *)
(* caller of run, the root saga, and below it the tasks that Fork, All and *)
(* Race create, to any depth, and the callers of dispatch outside the      *)
(* runtime.  The Action Channel is asyncio.Queue: its items, its waiting   *)
(* consumers (getters) and producers (putters), woken one at a time, first *)
(* come first served.  asyncio.TaskGroup is the structured scope of run,   *)
(* Fork, All and Race: leaving it waits for every task created in it, and  *)
(* a failed task makes it cancel the others and the task that waits.       *)
(*                                                                         *)
(* A saga body is a generator the runtime knows nothing about: each time   *)
(* it is resumed it yields one more effect from a menu, returns, or        *)
(* raises.  While a saga goes from one effect to the next without          *)
(* suspending, cur names it and nothing else runs.                         *)
(***************************************************************************)
EXTENDS Naturals, Integers, Sequences, FiniteSets, TLC

\* Action Channel capacity, Queue(maxsize=100) in the source, scaled down so
\* that a full channel is reached
QueueMaxSize == 2
\* effects yielded by all saga instances of one run together
MaxEffects == 2
\* calls of dispatch from outside the runtime
MaxDispatch == 2
\* error handlers registered
MaxHandlers == 2
\* calls of set_store
MaxSetStore == 1
\* tasks below the root saga's task on one branch: a forked saga, a
\* sub-effect of All or Race, and theirs
MaxDepth == 2

VARIABLES
    store,           \* self.store is set (a Store is attached)
    counter,         \* the Store's state["counter"] (MockStore)
    queue,           \* self._action_queue: the items, oldest first
    getters,         \* the queue's waiting consumers, oldest first
    putters,         \* the queue's waiting producers, oldest first
    error_handlers,  \* self.error_handlers: how many are registered
    tasks,           \* every task: its position, its effect, its result,
                     \* and the TaskGroup, slots and event it waits in
    ready,           \* the event loop's callbacks to run, oldest first
    todo,            \* callbacks left to run in this iteration of the loop
    appended,        \* the running step has asked the loop to run something
    timers,          \* the tasks asleep in a callable, in the order they
                     \* fell asleep
    cur,             \* the saga that holds the event loop, or NoTask
    runState,        \* the run call: "idle", "running", "returned", "failed"
    budget,          \* effects the saga bodies may still yield
    nExt,            \* dispatch calls made from outside so far
    nSet,            \* set_store calls made so far
    handlerLog,      \* every handler invocation, in order
    pending,         \* per action class: Store.dispatch calls minus enqueues
    owed,            \* tasks waiting in a Take that an action they match was
                     \* put for since they began to wait
    robbed           \* those of owed for which another task dequeued such an
                     \* action

vars == <<store, counter, queue, getters, putters, error_handlers, tasks,
          ready, todo, appended, timers, cur, runState, budget, nExt, nSet,
          handlerLog, pending, owed, robbed>>

-----------------------------------------------------------------------------
(* Values: what an effect resolves with, and what a task fails with.       *)

V(k, s, n, l) == [k |-> k, s |-> s, n |-> n, l |-> l]
NoneV == V("None", "", 0, <<>>)
StrV(s) == V("Str", s, 0, <<>>)
IntV(n) == V("Int", "", n, <<>>)
\* the Store's state: the dict object itself, not a copy of it; what it
\* holds under "counter" is the variable counter at the time it is read
StateV == V("State", "counter", 0, <<>>)
\* an Action instance of class cls (a dataclass: equal fields, equal values)
ActionV(cls) == V("Action", cls, 1, <<>>)
ListV(l) == V("List", "", 0, l)
\* a dict, its items in insertion order
ItemV(key, v) == V("Item", key, 0, <<v>>)
DictV(l) == V("Dict", "", 0, l)
ErrV(s) == V("Error", s, 0, <<>>)
\* ExceptionGroup('unhandled errors in a TaskGroup', errs)
GroupV(errs) == V("Error", "ExceptionGroup", 0, errs)
IsError(v) == v.k = "Error"

-----------------------------------------------------------------------------
(* Actions (src/saga/actions.py, src/tests/test_runtime.py).               *)

ActionClasses == {"Action", "Increment", "Decrement", "IncrementRequested"}

\* class -> its base class; Action is the root
BaseOf(cls) == IF cls = "Action" THEN "" ELSE "Action"

RECURSIVE IsInstance(_, _)
IsInstance(cls, pat) ==
    IF cls = pat THEN TRUE
    ELSE IF cls = "" THEN FALSE
    ELSE IsInstance(BaseOf(cls), pat)

\* Action.__init_subclass__: a subclass with no type gets its name in upper
\* case; Action itself has none ("" here: reading it raises AttributeError)
TypeOf(cls) ==
    CASE cls = "Increment" -> "INCREMENT"
      [] cls = "Decrement" -> "DECREMENT"
      [] cls = "IncrementRequested" -> "INCREMENTREQUESTED"
      [] OTHER -> ""

-----------------------------------------------------------------------------
(* Effects (src/saga/effects.py).                                          *)

Eff(kind, pk, a, subs, key) ==
    [kind |-> kind, pk |-> pk, a |-> a, subs |-> subs, key |-> key]
NoEffect == Eff("", "", "", <<>>, "")
Call(fn) == Eff("Call", "", fn, <<>>, "")
Put(cls) == Eff("Put", "", cls, <<>>, "")
\* Take(pattern): pattern is None, a string, or an action class
TakeNone == Eff("Take", "none", "", <<>>, "")
TakeStr(s) == Eff("Take", "str", s, <<>>, "")
TakeCls(cls) == Eff("Take", "cls", cls, <<>>, "")
\* Select(selector): sel = "counter" is lambda s: s["counter"], "" is no selector
Select(sel) == Eff("Select", "", sel, <<>>, "")
Fork == Eff("Fork", "", "child_saga", <<>>, "")
All(effects) == Eff("All", "", "", effects, "")
\* Race(effects): a dict, modelled as its items in order, each effect carrying
\* its key
Race(effects) == Eff("Race", "", "", effects, "")
Keyed(key, e) == [e EXCEPT !.key = key]
\* dispatch(action), called from outside the runtime
Dispatch(cls) == Eff("Dispatch", "", cls, <<>>, "")

(* The callables behind Call (the tests' fast_increment and slow_increment, *)
(* and one that raises): what each returns, and whether it suspends first. *)
Suspends(fn) == fn = "slow_increment"
Raises(fn) == fn = "boom"
ReturnOf(fn) == IF fn = "slow_increment" THEN StrV("SLOW") ELSE StrV("FAST")

\* the effects a saga body may yield that are handled in its own task
LeafMenu ==
    { Call("fast_increment"), Call("slow_increment"), Call("boom"),
      Put("Increment"), Put("Action"),
      TakeNone, TakeStr("INCREMENT"), TakeCls("Action"),
      Select("counter") }

\* the effect lists a saga body may pass to All
AllMenu ==
    { <<>>,
      <<Call("slow_increment"), Call("fast_increment")>>,
      <<Call("fast_increment"), Call("slow_increment"), Select("")>>,
      <<TakeStr("INCREMENT"), Put("Increment")>>,
      <<TakeCls("IncrementRequested"), TakeStr("INCREMENT")>>,
      <<Put("Increment"), TakeNone>>,
      <<Put("Increment"), Call("boom")>>,
      <<Call("slow_increment"), Call("boom")>>,
      <<All(<<Call("fast_increment")>>), Fork>>,
      <<Race(<<Keyed("a", Call("slow_increment"))>>), Call("boom")>> }

\* the key -> effect mappings a saga body may pass to Race
RaceMenu ==
    { <<>>,
      <<Keyed("slow", Call("slow_increment")), Keyed("fast", Call("fast_increment"))>>,
      <<Keyed("fast", Call("fast_increment")), Keyed("take", TakeStr("NEVER"))>>,
      <<Keyed("slow", Call("slow_increment")), Keyed("take", TakeNone)>>,
      <<Keyed("boom", Call("boom")), Keyed("slow", Call("slow_increment"))>>,
      <<Keyed("all", All(<<Call("slow_increment"), TakeNone>>))>>,
      <<Keyed("put", Put("Increment")), Keyed("sel", Select("counter"))>> }

\* the actions dispatch is called with from outside
DispatchMenu == {"Increment", "IncrementRequested"}

\* the tasks an effect needs below the task that handles it, on one branch
RECURSIVE NestDepth(_)
NestDepth(e) ==
    CASE e.kind = "Fork" -> 1
      [] e.kind \in {"All", "Race"} /\ e.subs # <<>> ->
            1 + (CHOOSE n \in 0 .. 8 :
                    /\ \A i \in 1 .. Len(e.subs) : NestDepth(e.subs[i]) <= n
                    /\ \E i \in 1 .. Len(e.subs) : NestDepth(e.subs[i]) = n)
      [] OTHER -> 0

\* the most tasks an effect, or one inside it, creates at once
RECURSIVE Width(_)
Width(e) ==
    CASE e.kind = "Fork" -> 1
      [] e.kind \in {"All", "Race"} /\ e.subs # <<>> ->
            CHOOSE n \in 1 .. 9 :
                /\ Len(e.subs) <= n
                /\ \A i \in 1 .. Len(e.subs) : Width(e.subs[i]) <= n
                /\ \/ Len(e.subs) = n
                   \/ \E i \in 1 .. Len(e.subs) : Width(e.subs[i]) = n
      [] OTHER -> 0

\* the most tasks any effect of the menus creates at once
MaxSub ==
    CHOOSE n \in 0 .. 9 :
        /\ \A es \in AllMenu \cup RaceMenu : Width(All(es)) <= n
        /\ \E es \in AllMenu \cup RaceMenu : Width(All(es)) = n

-----------------------------------------------------------------------------
(* Tasks.  The caller of run is task 0, the root saga's task 1, and the    *)
(* i-th task a task t creates for an effect 10 t + i.                      *)

NoTask == 0 - 1
RunId == 0
Root == 1
Child(t, i) == 10 * t + i
Parent(t) == t \div 10
Index(t) == t % 10

RECURSIVE Level(_)
Level(k) ==
    IF k = 0 THEN {Root}
    ELSE { Child(t, i) : t \in Level(k - 1), i \in 1 .. MaxSub }

TreeIds == UNION { Level(k) : k \in 0 .. MaxDepth }

RECURSIVE Depth(_)
Depth(t) == IF t <= Root THEN 0 ELSE 1 + Depth(Parent(t))

ExtId(j) == 0 - 1 - j
ExtIds == { ExtId(j) : j \in 1 .. MaxDispatch }
TaskIds == {RunId} \cup TreeIds \cup ExtIds

\* the effect e can be handled by task t within MaxDepth
Fits(t, e) == Depth(t) + NestDepth(e) <= MaxDepth

(* st: "none"      no such task                                            *)
(*     "ready"     created, not yet run                                    *)
(*     "resolved"  a saga, running, holding the result of its effect       *)
(*     "wait_call" suspended in the callable of a Call                     *)
(*     "wait_get"  in Queue.get          "wait_put"  in Queue.put          *)
(*     "wait_fork" "wait_all" "wait_exit"  leaving the TaskGroup of a      *)
(*                 Fork, an All, a Race                                    *)
(*     "wait_race" in done.wait() of a Race                                *)
(*     "wait_task" run, awaiting the root saga's task                      *)
(*     "woken_..." what the task waited for has happened; its step is in   *)
(*                 ready                                                   *)
(*     "done" "failed" "cancelled"  finished                               *)
(* role: "saga" (_run_saga), "wrapper" (of All), "run_effect" (of Race),   *)
(*     "ext" (a caller of dispatch), "run" (the caller of run)             *)
(* cancelReq: CancelledError is raised in the task at its next step        *)
(* sd: the task's dispatch has called Store.dispatch and not yet enqueued  *)
(* n, live, results, errors, aborting, pcr, prop, done: the effect the     *)
(*     task handles: tasks created, tasks in the TaskGroup, the slots of   *)
(*     All or the dict of Race, and the TaskGroup's _errors, _aborting,    *)
(*     _parent_cancel_requested, the CancelledError it will re-raise, and  *)
(*     the Event done of Race                                              *)
Task(st, role, eff, res) ==
    [st |-> st, role |-> role, eff |-> eff, res |-> res,
     cancelReq |-> FALSE, sd |-> FALSE,
     n |-> 0, live |-> 0, results |-> <<>>, errors |-> <<>>,
     aborting |-> FALSE, pcr |-> FALSE, prop |-> FALSE, done |-> FALSE]
NoneTask == Task("none", "", NoEffect, NoneV)
Finished(t) == t.st \in {"none", "done", "failed", "cancelled"}

Waits == {"wait_call", "wait_get", "wait_put", "wait_fork", "wait_all",
          "wait_exit", "wait_race", "wait_task"}
Woken(st) ==
    CASE st = "wait_call" -> "woken_call"
      [] st = "wait_get" -> "woken_get"
      [] st = "wait_put" -> "woken_put"
      [] st = "wait_fork" -> "woken_fork"
      [] st = "wait_all" -> "woken_all"
      [] st = "wait_exit" -> "woken_exit"
      [] st = "wait_race" -> "woken_race"
      [] st = "wait_task" -> "woken_task"
      [] OTHER -> st

\* where a task waits leaving the TaskGroup of an effect of this kind
JoinWait(kind) ==
    CASE kind = "Fork" -> "wait_fork"
      [] kind = "All" -> "wait_all"
      [] OTHER -> "wait_exit"
JoinWaits == {"wait_fork", "wait_all", "wait_exit"}
JoinStates == JoinWaits \cup {"woken_fork", "woken_all", "woken_exit"}
LeafStates == {"wait_call", "woken_call", "wait_get", "woken_get",
               "wait_put", "woken_put"}

-----------------------------------------------------------------------------
(* The world a step reads and writes, threaded through the operators:      *)
(* q queue, g getters, p putters, tk tasks, c counter, pd pending, ow owed, *)
(* rb robbed, rd ready, ap appended, tm timers, hl handlerLog, cur, rs     *)
(* runState.                                                               *)

World == [q |-> queue, g |-> getters, p |-> putters, tk |-> tasks,
          c |-> counter, pd |-> pending, ow |-> owed, rb |-> robbed,
          rd |-> ready, ap |-> appended, tm |-> timers, hl |-> handlerLog,
          cur |-> cur, rs |-> runState]

\* loop.call_soon(callback): k = "step" is the step of task t, k = "done" is
\* TaskGroup._on_task_done(t); g: the step that asks had asked already, so
\* nothing can come to run between the callback before and this one
Push(W, k, t) ==
    [W EXCEPT !.rd = Append(@, [k |-> k, t |-> t, g |-> W.ap]), !.ap = TRUE]

\* Future.set_result on the future task t awaits: its step is asked for
Wake(W, t) == Push([W EXCEPT !.tk[t].st = Woken(@)], "step", t)

Without(waiters, t) == SelectSeq(waiters, LAMBDA x : x # t)

\* Task.cancel(): a task that awaits a pending future has the future
\* cancelled, which asks for its step; one whose step is already asked for,
\* or that has not run yet, gets CancelledError at that step
Cancel(W, t) ==
    LET k == W.tk[t] IN
    IF Finished(k) THEN W
    ELSE IF k.st \in Waits /\ ~k.cancelReq
         THEN Push([W EXCEPT !.tk[t].cancelReq = TRUE, !.tm = Without(@, t)],
                   "step", t)
         ELSE [W EXCEPT !.tk[t].cancelReq = TRUE]

\* Queue.full() and Queue.empty()
Full(q) == Len(q) >= QueueMaxSize
Empty(q) == Len(q) = 0

\* Queue._wakeup_next(waiters), side "g" the getters, "p" the putters: the
\* oldest waiter whose future is not done is woken; a cancelled waiter still
\* in the list is dropped
RECURSIVE WakeupNext(_, _)
WakeupNext(W, side) ==
    LET ws == IF side = "g" THEN W.g ELSE W.p IN
    IF ws = <<>> THEN W
    ELSE LET W1 == IF side = "g" THEN [W EXCEPT !.g = Tail(ws)]
                   ELSE [W EXCEPT !.p = Tail(ws)]
         IN IF W.tk[Head(ws)].cancelReq THEN WakeupNext(W1, side)
            ELSE Wake(W1, Head(ws))

\* (every action taken for a match)
TakeTestAny(e, cls) == "match"

\* the test of _take on one dequeued action: "match", "skip", or "error"
\* (reading .type of a plain Action raises AttributeError)
TakeTest(e, cls) ==
    CASE e.pk = "none" -> "match"
      [] e.pk = "str" ->
            IF TypeOf(cls) = "" THEN "error"
            ELSE IF TypeOf(cls) = e.a THEN "match" ELSE "skip"
      [] OTHER -> IF IsInstance(cls, e.a) THEN "match" ELSE "skip"

\* the tasks waiting in a Take whose pattern the action a matches
Waiting(tk, a) ==
    { t \in TaskIds : /\ tk[t].st \in {"wait_get", "woken_get"}
                      /\ ~tk[t].cancelReq
                      /\ TakeTest(tk[t].eff, a) = "match" }

\* Queue.put_nowait(item) by task t: append, wake the next consumer
PutNowait(t, W, a) ==
    LET W1 == [W EXCEPT !.q = Append(W.q, a),
                        !.pd = [W.pd EXCEPT ![a] = IF W.tk[t].sd THEN @ - 1 ELSE @],
                        !.tk[t].sd = FALSE,
                        !.ow = @ \cup Waiting(W.tk, a)]
    IN WakeupNext(W1, "g")

\* (an item that matches left on the queue for the other consumers)
GetNowaitBroadcast(t, W) ==
    IF TakeTest(W.tk[t].eff, Head(W.q)) = "match" THEN W
    ELSE WakeupNext([W EXCEPT !.q = Tail(W.q)], "p")

\* Queue.get_nowait() by task t: remove the oldest item, wake the next
\* producer
GetNowait(t, W) ==
    WakeupNext([W EXCEPT !.q = Tail(W.q),
                         !.rb = @ \cup ((W.ow \cap Waiting(W.tk, Head(W.q))) \ {t})],
               "p")

\* (a Store whose reducer ignores the action)
StoreDispatchIgnored(W, a) ==
    [W EXCEPT !.pd = [W.pd EXCEPT ![a] = @ + 1]]

\* MockStore.dispatch(action) of the tests: the reducer, and the call counted
StoreDispatch(W, a) ==
    [W EXCEPT !.c = CASE a = "Increment" -> @ + 1
                      [] a = "Decrement" -> @ - 1
                      [] OTHER -> @,
              !.pd = [W.pd EXCEPT ![a] = @ + 1]]

\* the loop of _take from one suspension to the next: items are dequeued
\* until one matches, one raises, or the queue is empty
RECURSIVE TakeLoop(_, _, _)
TakeLoop(t, W, e) ==
    IF Empty(W.q) THEN [out |-> "wait", v |-> NoneV, W |-> W]
    ELSE LET a == Head(W.q)
             W1 == GetNowait(t, W)
             r == TakeTest(e, a)
         IN CASE r = "match" -> [out |-> "ok", v |-> ActionV(a), W |-> W1]
              [] r = "error" -> [out |-> "err", v |-> ErrV("AttributeError"), W |-> W1]
              [] OTHER -> TakeLoop(t, W1, e)

\* Queue.get() finding the queue empty: the task joins the getters
WaitGet(t, W) == [W EXCEPT !.g = Append(@, t), !.tk[t].st = "wait_get"]

\* Queue.put(item) from where it tests full(): wait, or put
QueuePut(t, W, a) ==
    IF Full(W.q)
    THEN [out |-> "wait", v |-> NoneV,
          W |-> [W EXCEPT !.p = Append(@, t), !.tk[t].st = "wait_put"]]
    ELSE [out |-> "ok", v |-> ActionV(a), W |-> PutNowait(t, W, a)]

\* SagaRuntime._take(pattern) from where it calls get()
DoTake(t, W, e) ==
    LET r == TakeLoop(t, W, e) IN
    IF r.out = "wait" THEN [r EXCEPT !.W = WaitGet(t, r.W)] ELSE r

\* SagaRuntime.dispatch(action)
DoDispatch(t, W, a) ==
    QueuePut(t, IF store THEN [StoreDispatch(W, a) EXCEPT !.tk[t].sd = TRUE]
                ELSE W, a)

-----------------------------------------------------------------------------
(* TaskGroup, and the effects that create tasks.                           *)

\* the effect of task t begins with a TaskGroup of n tasks
Group(W, t, n, results) ==
    [W EXCEPT !.tk[t].n = n, !.tk[t].live = n, !.tk[t].results = results]

\* TaskGroup.create_task for the effects es from the i-th on, in order
RECURSIVE Spawn(_, _, _, _, _)
Spawn(W, t, es, role, i) ==
    IF i > Len(es) THEN W
    ELSE Spawn(Push([W EXCEPT !.tk[Child(t, i)] = Task("ready", role, es[i], NoneV)],
                    "step", Child(t, i)),
               t, es, role, i + 1)

\* the effect of task t is over: its tasks and its TaskGroup are gone
ClearGroup(tk, t) ==
    [u \in DOMAIN tk |->
        IF u # RunId /\ u \in TreeIds /\ Parent(u) = t /\ Index(u) <= tk[t].n
        THEN NoneTask
        ELSE IF u = t
             THEN [tk[t] EXCEPT !.n = 0, !.live = 0, !.results = <<>>,
                                !.errors = <<>>, !.aborting = FALSE,
                                !.pcr = FALSE, !.prop = FALSE, !.done = FALSE]
             ELSE tk[u]]

\* what the effect of task t returns when its TaskGroup is left without error
GroupValue(k) ==
    CASE k.eff.kind = "Fork" -> NoneV
      [] k.eff.kind = "All" -> ListV(k.results)
      [] OTHER -> DictV(k.results)

\* TaskGroup.__aexit__ from where it tests whether tasks are left: the task
\* waits for them; with none left the group raises the CancelledError it
\* kept, or its errors, or the effect returns
ExitGroup(t, W) ==
    LET k == W.tk[t] IN
    IF k.live > 0
    THEN [out |-> "wait", v |-> NoneV,
          W |-> [W EXCEPT !.tk[t].st = JoinWait(k.eff.kind)]]
    ELSE LET W1 == [W EXCEPT !.tk = ClearGroup(@, t)] IN
         IF k.errors # <<>> THEN [out |-> "err", v |-> GroupV(k.errors), W |-> W1]
         ELSE IF k.prop THEN [out |-> "cancel", v |-> NoneV, W |-> W1]
         ELSE [out |-> "ok", v |-> GroupValue(k), W |-> W1]

\* Event.wait() on done in _handle_race
EventWait(t, W) ==
    IF W.tk[t].done THEN ExitGroup(t, W)
    ELSE [out |-> "wait", v |-> NoneV, W |-> [W EXCEPT !.tk[t].st = "wait_race"]]

\* TaskGroup._abort() of the effect of task p: the tasks that are not done
\* are cancelled, those of ord first and in that order
RECURSIVE CancelEach(_, _, _)
CancelEach(W, p, ord) ==
    IF ord = <<>> THEN W
    ELSE CancelEach(Cancel(W, Child(p, Head(ord))), p, Tail(ord))

Abort(W, p, ord) ==
    LET W1 == CancelEach([W EXCEPT !.tk[p].aborting = TRUE], p, ord)
    IN [W1 EXCEPT !.tk =
           [u \in DOMAIN W1.tk |->
               IF u # RunId /\ u \in TreeIds /\ Parent(u) = p
                  /\ Index(u) <= W1.tk[p].n /\ ~Finished(W1.tk[u])
               THEN [W1.tk[u] EXCEPT !.cancelReq = TRUE]
               ELSE W1.tk[u]]]

\* the orders in which _abort may cancel the tasks of task p that wait (the
\* group keeps its tasks in a set)
AbortOrders(p) ==
    LET S == { i \in 1 .. MaxSub :
                 /\ Child(p, i) \in TreeIds
                 /\ i <= tasks[p].n
                 /\ tasks[Child(p, i)].st \in Waits
                 /\ ~tasks[Child(p, i)].cancelReq }
    IN { s \in [1 .. Cardinality(S) -> S] :
           \A i, j \in 1 .. Cardinality(S) : i # j => s[i] # s[j] }

\* TaskGroup._on_task_done(t)
OnTaskDone(W, t, ord) ==
    LET p == Parent(t)
        W1 == [W EXCEPT !.tk[p].live = @ - 1]
        W2 == IF /\ W1.tk[p].st \in JoinWaits
                 /\ ~W1.tk[p].cancelReq
                 /\ W1.tk[p].live = 0
              THEN Wake(W1, p) ELSE W1
    IN IF W.tk[t].st # "failed" THEN W2
       ELSE LET W3 == [W2 EXCEPT !.tk[p].errors = Append(@, W.tk[t].res)]
            IN IF ~W3.tk[p].aborting /\ ~W3.tk[p].pcr
               THEN Cancel([Abort(W3, p, ord) EXCEPT !.tk[p].pcr = TRUE], p)
               ELSE W3

\* a CancelledError raised in task t where it waits in its TaskGroup: unless
\* the group is aborting already, it keeps the error and aborts
GroupCancelled(W, t, ord) ==
    LET W1 == [W EXCEPT !.tk[t].cancelReq = FALSE] IN
    IF W.tk[t].aborting THEN W1
    ELSE Abort([W1 EXCEPT !.tk[t].prop = TRUE], t, ord)

-----------------------------------------------------------------------------
(* _handle_effect.                                                         *)

\* SagaRuntime._handle_effect(effect) in task t up to its first suspension
HandleEffect(t, W, e) ==
    CASE e.kind = "Call" ->
            IF Raises(e.a) THEN [out |-> "err", v |-> ErrV("ValueError"), W |-> W]
            ELSE IF Suspends(e.a)
                 THEN [out |-> "wait", v |-> NoneV,
                       W |-> [W EXCEPT !.tk[t].st = "wait_call",
                                       !.tm = Append(@, t)]]
                 ELSE [out |-> "ok", v |-> ReturnOf(e.a), W |-> W]
      [] e.kind = "Put" ->
            IF ~store THEN [out |-> "err", v |-> ErrV("RuntimeError"), W |-> W]
            ELSE DoDispatch(t, W, e.a)
      [] e.kind = "Dispatch" -> DoDispatch(t, W, e.a)
      [] e.kind = "Take" -> DoTake(t, W, e)
      [] e.kind = "Select" ->
            IF ~store THEN [out |-> "err", v |-> ErrV("RuntimeError"), W |-> W]
            ELSE [out |-> "ok",
                  v |-> IF e.a = "" THEN StateV ELSE IntV(W.c), W |-> W]
      [] e.kind = "Fork" ->
            ExitGroup(t, Spawn(Group(W, t, 1, <<>>), t, <<NoEffect>>, "saga", 1))
      [] e.kind = "All" ->
            ExitGroup(t, Spawn(Group(W, t, Len(e.subs),
                                     [i \in 1 .. Len(e.subs) |-> NoneV]),
                               t, e.subs, "wrapper", 1))
      [] e.kind = "Race" ->
            EventWait(t, Spawn(Group(W, t, Len(e.subs), <<>>),
                               t, e.subs, "run_effect", 1))
      [] OTHER -> [out |-> "err", v |-> ErrV("ValueError"), W |-> W]

\* the same, resumed after a suspension in a callable or in the queue
ResumeEffect(t, W, e) ==
    CASE W.tk[t].st = "woken_call" -> [out |-> "ok", v |-> ReturnOf(e.a), W |-> W]
      [] W.tk[t].st = "woken_put" -> QueuePut(t, W, e.a)
      [] OTHER -> DoTake(t, W, e)

\* a CancelledError raised in task t where it waits in a callable or in the
\* queue.  In Queue.get and Queue.put the waiter leaves the list, and one
\* that had been woken passes the wakeup on
CancelledAt(t, W) ==
    LET st == W.tk[t].st
        W1 == [W EXCEPT !.g = Without(@, t), !.p = Without(@, t),
                        !.tm = Without(@, t)]
    IN CASE st = "woken_get" /\ ~Empty(W.q) -> WakeupNext(W1, "g")
         [] st = "woken_put" /\ ~Full(W.q) -> WakeupNext(W1, "p")
         [] OTHER -> W1

-----------------------------------------------------------------------------
(* Error handling.                                                         *)

\* SagaRuntime._handle_error(error) with n handlers registered, of which
\* handler f is the first that raises (f = 0: none raises): the handlers
\* invoked, in order, and what _handle_error raises in the end
Invoked(n, f) == IF f = 0 THEN n ELSE f
Raised(err, f) == IF f = 0 THEN err ELSE ErrV("HandlerError")
HandleError(d, err, n, f) ==
    [log |-> [i \in 1 .. Invoked(n, f) |->
                 [h |-> i, by |-> d, err |-> err, ok |-> i # f]],
     raised |-> Raised(err, f)]

\* the except clause of _run_saga: the handlers, then the task fails
SagaFail(tk, d, err, f) ==
    [tk EXCEPT ![d].st = "failed",
               ![d].res = HandleError(d, err, error_handlers, f).raised]

-----------------------------------------------------------------------------
(* How a task step ends.  r is the outcome of the effect: "ok" with a      *)
(* value, "err" with an error, "wait" (the task suspended) or "cancel"     *)
(* (CancelledError).                                                       *)

\* task t has ended: the callbacks of its done future are asked for, the
\* TaskGroup's, and for the root saga's task the step of run, which awaits it
Finish(W, t) ==
    LET W1 == [W EXCEPT !.tk[t].cancelReq = FALSE, !.tk[t].sd = FALSE] IN
    CASE W.tk[t].role = "ext" -> [W EXCEPT !.tk[t] = NoneTask]
      [] t = Root -> Wake(Push(W1, "done", t), RunId)
      [] OTHER -> Push(W1, "done", t)

\* (the slots filled in the order the tasks complete)
SlotWriteNextFree(results, idx, v) ==
    LET free == { i \in 1 .. Len(results) : results[i] = NoneV }
    IN [results EXCEPT ![CHOOSE i \in free : \A j \in free : i <= j] = v]

\* wrapper(_effect, idx) of All: results[idx] = the value
SlotWrite(results, idx, v) == [results EXCEPT ![idx] = v]

\* run_effect(key, effect) of Race: results[key] = the value or the error
RaceWrite(results, key, v) == Append(results, ItemV(key, v))

\* Event.set() on done of the Race of task p: the first time, the task that
\* waits in done.wait() is woken
EventSet(W, p) ==
    LET W1 == [W EXCEPT !.tk[p].done = TRUE] IN
    IF ~W.tk[p].done /\ W.tk[p].st = "wait_race" /\ ~W.tk[p].cancelReq
    THEN Wake(W1, p) ELSE W1

\* a saga instance: _run_saga goes on with the result, or to its except
\* clause; CancelledError is not an Exception and ends the task
SettleSaga(d, r, f) ==
    CASE r.out = "ok" ->
            [r.W EXCEPT !.tk[d].st = "resolved", !.tk[d].res = r.v, !.cur = d]
      [] r.out = "wait" -> [r.W EXCEPT !.cur = NoTask]
      [] r.out = "cancel" ->
            Finish([r.W EXCEPT !.tk[d].st = "cancelled", !.tk[d].res = NoneV,
                               !.cur = NoTask], d)
      [] OTHER ->
            Finish([r.W EXCEPT !.tk = SagaFail(@, d, r.v, f),
                               !.hl = @ \o HandleError(d, r.v, error_handlers, f).log,
                               !.cur = NoTask], d)

\* a sub-effect task of All (wrapper) or of Race (run_effect)
SettleSub(t, r) ==
    LET p == Parent(t)
        e == r.W.tk[t].eff
    IN CASE r.out = "wait" -> r.W
         [] r.out = "cancel" ->
               Finish([r.W EXCEPT !.tk[t].st = "cancelled", !.tk[t].res = NoneV], t)
         [] r.W.tk[t].role = "run_effect" ->
               Finish(EventSet([r.W EXCEPT !.tk[t].st = "done", !.tk[t].res = r.v,
                                           !.tk[p].results = RaceWrite(@, e.key, r.v)],
                               p), t)
         [] r.out = "ok" ->
               Finish([r.W EXCEPT !.tk[t].st = "done", !.tk[t].res = r.v,
                                  !.tk[p].results = SlotWrite(@, Index(t), r.v)], t)
         [] OTHER ->
               Finish([r.W EXCEPT !.tk[t].st = "failed", !.tk[t].res = r.v], t)

\* a caller of dispatch outside the runtime
SettleExt(t, r) ==
    IF r.out = "wait" THEN r.W ELSE Finish(r.W, t)

Settle(t, r, f) ==
    CASE r.W.tk[t].role = "saga" -> SettleSaga(t, r, f)
      [] r.W.tk[t].role = "ext" -> SettleExt(t, r)
      [] OTHER -> SettleSub(t, r)

\* the handler that fails is chosen only where handlers are invoked
Chosen(t, r, f) ==
    f = 0 \/ (r.W.tk[t].role = "saga" /\ r.out = "err")

\* the state after the step
Commit(world) ==
    \E W \in {world} :
        /\ queue' = W.q
        /\ getters' = W.g
        /\ putters' = W.p
        /\ tasks' = W.tk
        /\ counter' = W.c
        /\ pending' = W.pd
        /\ ready' = W.rd
        /\ appended' = (W.cur # NoTask /\ W.ap)
        /\ timers' = W.tm
        /\ handlerLog' = W.hl
        /\ cur' = W.cur
        /\ runState' = W.rs
        /\ LET waiting == { u \in TaskIds : W.tk[u].st \in {"wait_get", "woken_get"} }
           IN owed' = W.ow \cap waiting /\ robbed' = W.rb \cap waiting

-----------------------------------------------------------------------------
(* The event loop.                                                         *)

\* the loop's next callback is k of task t
Handle(k, t) ==
    /\ cur = NoTask
    /\ ready # <<>>
    /\ Head(ready).k = k
    /\ Head(ready).t = t

\* the world once the loop has taken its next callback
Popped == [World EXCEPT !.rd = Tail(@)]

\* BaseEventLoop._run_once: an iteration runs the callbacks that are ready
\* when it begins; those asked for meanwhile wait for the next
Pop == todo' = (IF todo = 0 THEN Len(ready) ELSE todo) - 1

\* code outside the runtime may run between two callbacks of the loop,
\* unless one step asked for both
Outside == cur = NoTask /\ (IF ready = <<>> THEN TRUE ELSE ~Head(ready).g)

\* ... as the last thing of an iteration of the loop, or (first) as the
\* first thing of the next one
OutsideStep(first) ==
    /\ Outside
    /\ todo' = IF first /\ todo = 0 THEN Len(ready) ELSE todo

Init ==
    /\ store \in BOOLEAN
    /\ counter = 0
    /\ queue = <<>>
    /\ getters = <<>>
    /\ putters = <<>>
    /\ error_handlers = 0
    /\ tasks = [t \in TaskIds |-> NoneTask]
    /\ ready = <<>>
    /\ todo = 0
    /\ appended = FALSE
    /\ timers = <<>>
    /\ cur = NoTask
    /\ runState = "idle"
    /\ budget = MaxEffects
    /\ nExt = 0
    /\ nSet = 0
    /\ handlerLog = <<>>
    /\ pending = [c \in ActionClasses |-> 0]
    /\ owed = {}
    /\ robbed = {}

\* add_error_handler(handler)
AddErrorHandler ==
    /\ Outside
    /\ error_handlers < MaxHandlers
    /\ error_handlers' = error_handlers + 1
    /\ UNCHANGED <<store, counter, queue, getters, putters, tasks, ready, todo,
                   appended, timers, cur, runState, budget, nExt, nSet,
                   handlerLog, pending, owed, robbed>>

\* set_store(store): s is whether a Store, the one of the tests, or None
SetStore(s) ==
    /\ Outside
    /\ nSet < MaxSetStore
    /\ nSet' = nSet + 1
    /\ store' = s
    /\ UNCHANGED <<counter, queue, getters, putters, error_handlers, tasks,
                   ready, todo, appended, timers, cur, runState, budget, nExt,
                   handlerLog, pending, owed, robbed>>

\* run(saga) is called: in its TaskGroup the root saga's task is created,
\* and awaited
Run(first) ==
    /\ runState = "idle"
    /\ OutsideStep(first)
    /\ \E W \in {[World EXCEPT !.rs = "running",
                               !.tk[RunId] = Task("wait_task", "run", NoEffect, NoneV)]} :
          Commit(Spawn(Group(W, RunId, 1, <<>>), RunId, <<NoEffect>>, "saga", 1))
    /\ UNCHANGED <<store, error_handlers, budget, nExt, nSet>>

\* (run swallowing the failure of its task)
RunResultReturns(errors) == "returned"

\* how run ends: its TaskGroup raises the errors of its task, if any
RunResult(errors) == IF errors = <<>> THEN "returned" ELSE "failed"

\* (run returning without waiting for its task)
RunExitEarly ==
    /\ runState = "running"
    /\ cur = NoTask
    /\ runState' = "returned"
    /\ UNCHANGED <<store, counter, queue, getters, putters, error_handlers,
                   tasks, ready, todo, appended, timers, cur, budget, nExt,
                   nSet, handlerLog, pending, owed, robbed>>

\* the step of run after its task is done: it leaves its TaskGroup; it
\* returns, or raises the root's error in a group
RunExit ==
    /\ Handle("step", RunId)
    /\ Pop
    /\ LET k == tasks[RunId]
           st == IF RunResult(k.errors) = "returned" THEN "done" ELSE "failed"
       IN Commit([Popped EXCEPT !.rs = RunResult(k.errors),
                                !.tk[RunId].st = st,
                                !.tk[RunId].cancelReq = FALSE])
    /\ UNCHANGED <<store, error_handlers, budget, nExt, nSet>>

\* dispatch(action) called from outside the runtime
ExtDispatch(a, first) ==
    /\ OutsideStep(first)
    /\ nExt < MaxDispatch
    /\ nExt' = nExt + 1
    /\ \E t \in {ExtId(nExt + 1)} :
       \E W \in {[World EXCEPT !.tk[t] = Task("ready", "ext", Dispatch(a), NoneV)]} :
       \E r \in {HandleEffect(t, W, Dispatch(a))} :
          Commit(Settle(t, r, 0))
    /\ UNCHANGED <<store, error_handlers, budget, nSet>>

\* the sleep of the callable the oldest sleeper is in ends: between two
\* iterations of the loop its task is woken
TimerFire ==
    /\ cur = NoTask
    /\ todo = 0
    /\ timers # <<>>
    /\ Commit(Wake([World EXCEPT !.tm = Tail(@)], Head(timers)))
    /\ UNCHANGED <<store, error_handlers, todo, budget, nExt, nSet>>

-----------------------------------------------------------------------------
(* The steps of a saga instance.                                           *)

\* a saga instance may run: its first step is the loop's next callback, or
\* it holds the loop with the result of its effect
SagaCanStep(d) ==
    \/ /\ Handle("step", d)
       /\ tasks[d].st = "ready"
       /\ tasks[d].role = "saga"
       /\ ~tasks[d].cancelReq
    \/ cur = d /\ tasks[d].st = "resolved"

\* the world the saga body runs in, and the loop's count
SagaWorld == IF cur = NoTask THEN Popped ELSE World
SagaPop == IF cur = NoTask THEN Pop ELSE todo' = todo

\* the saga body yields the effect e, which _handle_effect handles
SagaYield(d, e, f) ==
    /\ SagaCanStep(d)
    /\ SagaPop
    /\ budget > 0
    /\ Fits(d, e)
    /\ budget' = budget - 1
    /\ \E W \in {[SagaWorld EXCEPT !.tk[d].eff = e, !.tk[d].res = NoneV]} :
       \E r \in {HandleEffect(d, W, e)} :
          Chosen(d, r, f) /\ Commit(Settle(d, r, f))
    /\ UNCHANGED <<store, error_handlers, nExt, nSet>>

\* the saga body yields an effect handled in its own task
SagaYieldLeaf(d, e, f) == SagaYield(d, e, f)

\* the saga body yields Fork(saga): the child's task is created in a
\* TaskGroup, which the parent then leaves, waiting for the child
SagaYieldFork(d) == SagaYield(d, Fork, 0)

\* the saga body yields All(effects): one task per effect in a TaskGroup,
\* which the saga then leaves; with no effect there is nothing to wait for
SagaYieldAll(d, es) == SagaYield(d, All(es), 0)

\* the saga body yields Race(effects): one task per entry in a TaskGroup, in
\* which the saga waits for the event done
SagaYieldRace(d, es) == SagaYield(d, Race(es), 0)

\* the saga body returns (StopAsyncIteration): after an effect the instance
\* completes; before its first effect the exception is raised outside the
\* loop of _run_saga that expects it, and the instance fails with it
SagaReturn(d, f) ==
    /\ SagaCanStep(d)
    /\ SagaPop
    /\ f \in 0 .. error_handlers
    /\ IF tasks[d].st = "ready"
       THEN Commit(Settle(d, [out |-> "err", v |-> ErrV("StopAsyncIteration"),
                              W |-> SagaWorld], f))
       ELSE /\ f = 0
            /\ Commit(Finish([SagaWorld EXCEPT !.tk[d].st = "done",
                                               !.tk[d].eff = NoEffect,
                                               !.tk[d].res = NoneV,
                                               !.cur = NoTask], d))
    /\ UNCHANGED <<store, error_handlers, budget, nExt, nSet>>

\* the saga body raises
SagaRaise(d, f) ==
    /\ SagaCanStep(d)
    /\ SagaPop
    /\ f \in 0 .. error_handlers
    /\ Commit(Settle(d, [out |-> "err", v |-> ErrV("SagaError"), W |-> SagaWorld], f))
    /\ UNCHANGED <<store, error_handlers, budget, nExt, nSet>>

-----------------------------------------------------------------------------
(* The other callbacks of the loop.                                        *)

\* a sub-effect task of All or Race runs for the first time
SubStart(t) ==
    /\ Handle("step", t)
    /\ Pop
    /\ tasks[t].st = "ready"
    /\ tasks[t].role \in {"wrapper", "run_effect"}
    /\ ~tasks[t].cancelReq
    /\ \E W \in {Popped} :
       \E r \in {HandleEffect(t, W, tasks[t].eff)} :
          Commit(Settle(t, r, 0))
    /\ UNCHANGED <<store, error_handlers, budget, nExt, nSet>>

\* a task woken in a callable, in Queue.get or in Queue.put goes on
Resume(t, f) ==
    /\ Handle("step", t)
    /\ Pop
    /\ tasks[t].st \in {"woken_call", "woken_get", "woken_put"}
    /\ ~tasks[t].cancelReq
    /\ f \in 0 .. error_handlers
    /\ \E W \in {Popped} :
       \E r \in {ResumeEffect(t, W, tasks[t].eff)} :
          Chosen(t, r, f) /\ Commit(Settle(t, r, f))
    /\ UNCHANGED <<store, error_handlers, budget, nExt, nSet>>

\* a cancelled task runs: CancelledError is raised before its first step, or
\* where it waits in a callable or in the queue, and ends it
Cancelled(t) ==
    /\ Handle("step", t)
    /\ Pop
    /\ tasks[t].cancelReq
    /\ tasks[t].st \in {"ready"} \cup LeafStates
    /\ \E W \in {Popped} :
          Commit(Settle(t, [out |-> "cancel", v |-> NoneV,
                            W |-> CancelledAt(t, W)], 0))
    /\ UNCHANGED <<store, error_handlers, budget, nExt, nSet>>

\* a task that waits leaving the TaskGroup of its Fork, All or Race runs:
\* its tasks are all done, or it has been cancelled.  With tasks left it
\* waits again; with none the effect returns or the group raises
Join(t, f, ord) ==
    /\ Handle("step", t)
    /\ Pop
    /\ tasks[t].st \in JoinStates
    /\ f \in 0 .. error_handlers
    /\ \E W \in {IF tasks[t].cancelReq THEN GroupCancelled(Popped, t, ord)
                 ELSE Popped} :
       \E r \in {ExitGroup(t, W)} :
          Chosen(t, r, f) /\ Commit(Settle(t, r, f))
    /\ UNCHANGED <<store, error_handlers, budget, nExt, nSet>>

\* the task of a Race runs after done.wait(): the event is set, and it goes
\* on to leave the TaskGroup; or it has been cancelled there
RaceWake(t, ord) ==
    /\ Handle("step", t)
    /\ Pop
    /\ tasks[t].st \in {"wait_race", "woken_race"}
    /\ \E W \in {IF tasks[t].cancelReq THEN GroupCancelled(Popped, t, ord)
                 ELSE Popped} :
       \E r \in {ExitGroup(t, W)} :
          Commit(Settle(t, r, 0))
    /\ UNCHANGED <<store, error_handlers, budget, nExt, nSet>>

\* the callback of a TaskGroup for its task t that is done
TaskDone(t, ord) ==
    /\ Handle("done", t)
    /\ Pop
    /\ \E W \in {Popped} : Commit(OnTaskDone(W, t, ord))
    /\ UNCHANGED <<store, error_handlers, budget, nExt, nSet>>

-----------------------------------------------------------------------------
\* the task whose callback the loop runs next, and the task that may run now
Front == IF cur = NoTask /\ ready # <<>> THEN {Head(ready).t} ELSE {}
Runner == IF cur = NoTask THEN Front ELSE {cur}

Next ==
    \/ AddErrorHandler
    \/ \E s \in BOOLEAN : SetStore(s)
    \/ \E first \in BOOLEAN : Run(first)
    \/ RunExit
    \/ \E a \in DispatchMenu, first \in BOOLEAN : ExtDispatch(a, first)
    \/ TimerFire
    \/ \E d \in Runner, e \in LeafMenu, f \in 0 .. error_handlers :
          SagaYieldLeaf(d, e, f)
    \/ \E d \in Runner : SagaYieldFork(d)
    \/ \E d \in Runner, es \in AllMenu : SagaYieldAll(d, es)
    \/ \E d \in Runner, es \in RaceMenu : SagaYieldRace(d, es)
    \/ \E d \in Runner, f \in 0 .. error_handlers : SagaReturn(d, f)
    \/ \E d \in Runner, f \in 0 .. error_handlers : SagaRaise(d, f)
    \/ \E t \in Front : SubStart(t)
    \/ \E t \in Front, f \in 0 .. error_handlers : Resume(t, f)
    \/ \E t \in Front : Cancelled(t)
    \/ \E t \in Front, f \in 0 .. error_handlers :
          \E ord \in AbortOrders(t) : Join(t, f, ord)
    \/ \E t \in Front : \E ord \in AbortOrders(t) : RaceWake(t, ord)
    \/ \E t \in Front : \E ord \in AbortOrders(Parent(t)) : TaskDone(t, ord)

Spec == Init /\ [][Next]_vars

-----------------------------------------------------------------------------
(* Properties.                                                             *)

\* the steps the event loop takes by itself: every step but a call from
\* outside the runtime
Internal ==
    \/ RunExit
    \/ TimerFire
    \/ \E d \in Runner, e \in LeafMenu, f \in 0 .. error_handlers :
          SagaYieldLeaf(d, e, f)
    \/ \E d \in Runner : SagaYieldFork(d)
    \/ \E d \in Runner, es \in AllMenu : SagaYieldAll(d, es)
    \/ \E d \in Runner, es \in RaceMenu : SagaYieldRace(d, es)
    \/ \E d \in Runner, f \in 0 .. error_handlers : SagaReturn(d, f)
    \/ \E d \in Runner, f \in 0 .. error_handlers : SagaRaise(d, f)
    \/ \E t \in Front : SubStart(t)
    \/ \E t \in Front, f \in 0 .. error_handlers : Resume(t, f)
    \/ \E t \in Front : Cancelled(t)
    \/ \E t \in Front, f \in 0 .. error_handlers :
          \E ord \in AbortOrders(t) : Join(t, f, ord)
    \/ \E t \in Front : \E ord \in AbortOrders(t) : RaceWake(t, ord)
    \/ \E t \in Front : \E ord \in AbortOrders(Parent(t)) : TaskDone(t, ord)

\* the event loop runs every callback it has been asked to run
FairSpec == Spec /\ WF_vars(Internal)

\* saga instance d holds the result of an effect of this kind
Resolved(d, kind) == tasks[d].st = "resolved" /\ tasks[d].eff.kind = kind

\* the effect of this kind that task t handled has succeeded: a saga holds
\* its result, a sub-effect task has ended with it
Succeeded(t, kind) ==
    /\ tasks[t].eff.kind = kind
    /\ tasks[t].st \in {"resolved", "done"}
    /\ ~IsError(tasks[t].res)

\* the tasks created for the effect task t handles
Kids(t) == { Child(t, i) : i \in 1 .. tasks[t].n }

\* the task t has been created and has not ended
Live(t) == tasks[t].st \notin {"none", "done", "failed", "cancelled"}

\* the pattern of Take e matches an action of class cls
PatMatch(e, cls) ==
    \/ e.pk = "none"
    \/ /\ e.pk = "str"
       /\ <<e.a, cls>> \in { <<"INCREMENT", "Increment">>,
                            <<"DECREMENT", "Decrement">>,
                            <<"INCREMENTREQUESTED", "IncrementRequested">> }
    \/ /\ e.pk = "cls"
       /\ e.a \in {cls, "Action"}

\* v is what the effect e resolves with when it succeeds
RECURSIVE ResultOf(_, _)
ResultOf(e, v) ==
    CASE e.kind = "Call" ->
            \/ e.a = "slow_increment" /\ v = StrV("SLOW")
            \/ e.a = "fast_increment" /\ v = StrV("FAST")
      [] e.kind = "Put" -> v = ActionV(e.a)
      [] e.kind = "Take" -> v.k = "Action" /\ PatMatch(e, v.s)
      [] e.kind = "Select" -> IF e.a = "" THEN v = StateV ELSE v.k = "Int"
      [] e.kind = "Fork" -> v = NoneV
      [] e.kind = "All" ->
            /\ v.k = "List"
            /\ Len(v.l) = Len(e.subs)
            /\ \A i \in 1 .. Len(e.subs) : ResultOf(e.subs[i], v.l[i])
      [] e.kind = "Race" -> v.k = "Dict"
      [] OTHER -> FALSE

\* C1: an All whose sub-effects all succeed resolves with a list as long as
\* its input whose i-th element is the result of the i-th sub-effect, in
\* whatever order the sub-effect tasks completed
C1_AllOrdered ==
    \A t \in TreeIds :
        Succeeded(t, "All") => ResultOf(tasks[t].eff, tasks[t].res)

\* an All resolved whose second sub-effect completed before its first
C1_Witness ==
    \E d \in TreeIds :
        /\ Resolved(d, "All")
        /\ tasks[d].eff.subs = <<Call("slow_increment"), Call("fast_increment")>>
        /\ tasks[d].res = ListV(<<StrV("SLOW"), StrV("FAST")>>)

\* C2: the mapping a Race resolves with has exactly one entry, that of a
\* branch of the Race, the one that settled first
C2_RaceSingleEntry ==
    \A t \in TreeIds :
        Succeeded(t, "Race") =>
            /\ Len(tasks[t].res.l) = 1
            /\ \E i \in 1 .. Len(tasks[t].eff.subs) :
                  tasks[t].res.l[1].s = tasks[t].eff.subs[i].key

\* C3: once the first branch of a Race has settled and the coordinator has
\* seen it, every branch still in flight has been cancelled: the coordinator
\* waits for none that goes on
C3_RaceLosersCancelled ==
    \A t \in TreeIds :
        tasks[t].st = "wait_exit" =>
            \A u \in Kids(t) : Finished(tasks[u]) \/ tasks[u].cancelReq

\* C4: Fork resolves at once: no saga instance is suspended in a Fork while
\* the child it forked is itself suspended
C4_ForkDoesNotWait ==
    \A d \in TreeIds :
        tasks[d].st = "wait_fork" =>
            \A u \in Kids(d) :
                tasks[u].st \notin {"wait_get", "wait_put", "wait_call"}

\* task t ends a Take with an action in this step
TakeEnds(t) ==
    /\ t \in Runner
    /\ tasks'[t].eff.kind = "Take"
    /\ tasks'[t].st \in {"resolved", "done"}
    /\ tasks'[t].res.k = "Action"
    /\ tasks[t].st \notin {"resolved", "done"} \/ budget' # budget

\* C5: a Take resolves with the first action it dequeues that matches its
\* pattern (None: any action; a string: the action's type; a class: an
\* instance of it); the actions before it in the channel do not match and
\* are dequeued with it
C5_TakeFirstMatch ==
    [][\A t \in TreeIds :
          TakeEnds(t) =>
             \E k \in 1 .. Len(queue) :
                /\ queue[k] = tasks'[t].res.s
                /\ PatMatch(tasks'[t].eff, queue[k])
                /\ \A j \in 1 .. k - 1 : ~PatMatch(tasks'[t].eff, queue[j])
                /\ queue' = SubSeq(queue, k + 1, Len(queue))]_vars

\* a Take("INCREMENT"), the only effect so far, has resolved; both actions
\* dispatched from outside are gone from the channel: one of them was skipped
C5_Witness ==
    \E d \in TreeIds :
        /\ Resolved(d, "Take")
        /\ tasks[d].eff = TakeStr("INCREMENT")
        /\ tasks[d].res = ActionV("Increment")
        /\ nExt = 2
        /\ budget = MaxEffects - 1
        /\ queue = <<>>

\* the tasks suspended in Queue.put with an action of class a that they have
\* given to the Store
Producers(a) ==
    { t \in TaskIds : /\ tasks[t].st \in {"wait_put", "woken_put"}
                      /\ tasks[t].sd
                      /\ tasks[t].eff.a = a }

\* C6: with a Store attached, every Put(a) causes one Store.dispatch(a) and
\* then one enqueue of a: an action the Store has been given and that is not
\* yet on the channel is the action of a producer still suspended in its
\* enqueue, which will put it there
C6_PutEnqueuesWhatItDispatched ==
    \A a \in ActionClasses : pending[a] = Cardinality(Producers(a))

\* C7: under fair scheduling, a Take(p) that is waiting when an action
\* matching p is put is woken and resolves with a matching action, whatever
\* other Take calls wait on the channel: no Take stays waiting for ever
\* after such a put, so that again and again none is waiting that an action
\* was put for
C7_TakeEventuallyResolves == []<>(owed = {})

\* C8: the channel never holds more than its capacity, and a producer
\* suspended on the full channel stays suspended until it enqueues its
\* action: it ends in no other way
C8_ProducerNeverDropped ==
    /\ [](Len(queue) <= QueueMaxSize)
    /\ [][\A t \in TaskIds :
             tasks[t].st \in {"wait_put", "woken_put"} =>
                \/ tasks'[t].st \in {"wait_put", "woken_put"}
                \/ queue' = Append(queue, tasks[t].eff.a)]_vars

\* C9: a handler after the first is invoked only when the handler before it
\* has failed, and run does not fail once a handler has completed without
\* failing
C9_FirstHandlerHandles ==
    /\ \A i \in 1 .. Len(handlerLog) :
          handlerLog[i].h > 1 => i > 1 /\ ~handlerLog[i - 1].ok
    /\ (\E i \in 1 .. Len(handlerLog) : handlerLog[i].ok) => runState # "failed"

\* the handlers invoked for the failure of the root saga, in order
RootChain == SelectSeq(handlerLog, LAMBDA x : x.by = Root)

\* the TaskGroup of run is about to learn that the root's task is done
RootDonePending ==
    \E i \in 1 .. Len(ready) : ready[i].k = "done" /\ ready[i].t = Root

\* C10: when the root saga has failed and no handler was invoked for its
\* failure (none was registered), or the handlers invoked end with one that
\* fails, run does not return normally: its TaskGroup learns of the failure
\* and run ends in failure
C10_RootFailureEscalated ==
    /\ tasks[Root].st = "failed"
    /\ \/ RootChain = <<>>
       \/ ~RootChain[Len(RootChain)].ok
    => /\ runState \in {"running", "failed"}
       /\ runState = "running" =>
             \/ RootDonePending
             \/ RunResult(tasks[RunId].errors) = "failed"

\* the root saga has failed with no handler registered and run has failed
C10_Witness ==
    /\ tasks[Root].st = "failed"
    /\ error_handlers = 0
    /\ handlerLog = <<>>
    /\ runState = "failed"

\* the entries the handlers' log gains in this step
NewLog == SubSeq(handlerLog', Len(handlerLog) + 1, Len(handlerLog'))

\* with no Store, saga instance d yields a Put or a Select in this step
YieldsNoStore(d) ==
    /\ ~store
    /\ d \in Runner
    /\ budget' = budget - 1
    /\ tasks'[d].eff.kind \in {"Put", "Select"}

\* with no Store, the sub-effect task t runs its Put or Select in this step
SubRunsNoStore(t) ==
    /\ ~store
    /\ t \in Front
    /\ tasks[t].role \in {"wrapper", "run_effect"}
    /\ tasks[t].st = "ready"
    /\ ~tasks[t].cancelReq
    /\ tasks'[t].st # "ready"
    /\ tasks[t].eff.kind \in {"Put", "Select"}

\* the RuntimeError of the missing Store is a value of the mapping v
HoldsNoStoreError(v) ==
    /\ v.k = "Dict"
    /\ \E i \in 1 .. Len(v.l) : v.l[i].l[1] = ErrV("RuntimeError")

\* C11: with no Store attached a Put and a Select fail with the RuntimeError
\* of the missing Store and the channel is left as it was, whether a saga
\* instance yields the effect itself or a task of an All or a Race runs it;
\* the failure goes to the error handling: the saga instance that yielded
\* the effect fails, with the handlers invoked with that error, and no saga
\* instance is resumed with the error as a value of its effect's result
C11_NoStoreFails ==
    [][/\ \A d \in TreeIds :
             YieldsNoStore(d) =>
                /\ tasks'[d].st = "failed"
                /\ cur' = NoTask
                /\ queue' = queue
                /\ error_handlers > 0 => NewLog # <<>>
                /\ \A i \in 1 .. Len(NewLog) :
                      /\ NewLog[i].h = i
                      /\ NewLog[i].by = d
                      /\ NewLog[i].err = ErrV("RuntimeError")
       /\ \A t \in TreeIds :
             SubRunsNoStore(t) =>
                /\ tasks'[t].st \in {"failed", "done"}
                /\ tasks'[t].res = ErrV("RuntimeError")
                /\ queue' = queue
       /\ \A d \in TreeIds :
             tasks'[d].st = "resolved" => ~HoldsNoStoreError(tasks'[d].res)]_vars

\* C12: the failure of a forked child does not abort its parent: no saga
\* instance fails on the Fork it yielded, and run does not fail when the
\* root's last effect was a Fork
C12_ChildFailureContained ==
    /\ \A d \in TreeIds :
          tasks[d].eff.kind = "Fork" => tasks[d].st # "failed"
    /\ tasks[Root].eff.kind = "Fork" => runState # "failed"

\* C13: run has returned normally only if no task started under it is still
\* running or suspended, and as long as a saga instance or one of its
\* sub-effect tasks is, run cannot leave
C13_RunWaitsForAll ==
    /\ runState = "returned" => \A t \in TreeIds : ~Live(t)
    /\ (\E t \in TreeIds : Live(t)) => ~ENABLED RunExit

\* run is still running behind a root that waits in Fork for a child that is
\* suspended on a Take
C13_Witness ==
    /\ runState = "running"
    /\ tasks[Root].st = "wait_fork"
    /\ tasks[Child(Root, 1)].st = "wait_get"
    /\ ~ENABLED RunExit

-----------------------------------------------------------------------------
(* The increment saga of the tests: Take of an IncrementRequested, Put of   *)
(* an Increment, Select of the counter, against a Store whose counter       *)
(* starts at 0, with IncrementRequested dispatched from outside.            *)

\* the effects the saga yields, in order; each step in the ways the pattern
\* and the selector can be written
IncrementSaga ==
    << { TakeCls("IncrementRequested"), TakeStr("INCREMENTREQUESTED"),
         TakeCls("Action"), TakeNone },
       { Put("Increment") },
       { Select("counter"), Select("") } >>

ScenarioInit ==
    /\ store = TRUE
    /\ counter = 0
    /\ queue = <<>>
    /\ getters = <<>>
    /\ putters = <<>>
    /\ error_handlers = 0
    /\ tasks = [t \in TaskIds |-> NoneTask]
    /\ ready = <<>>
    /\ todo = 0
    /\ appended = FALSE
    /\ timers = <<>>
    /\ cur = NoTask
    /\ runState = "idle"
    /\ budget = Len(IncrementSaga)
    /\ nExt = 0
    /\ nSet = 0
    /\ handlerLog = <<>>
    /\ pending = [c \in ActionClasses |-> 0]
    /\ owed = {}
    /\ robbed = {}

\* the saga yields its next effect
ScenarioYield ==
    /\ budget > 0
    /\ \E e \in IncrementSaga[Len(IncrementSaga) - budget + 1] :
          SagaYieldLeaf(Root, e, 0)

\* the saga returns after its last effect
ScenarioReturn == budget = 0 /\ SagaReturn(Root, 0)

\* the steps of the event loop
ScenarioInternal ==
    \/ ScenarioYield
    \/ ScenarioReturn
    \/ \E t \in Front : Resume(t, 0)
    \/ TaskDone(Root, <<>>)
    \/ RunExit

ScenarioNext ==
    \/ AddErrorHandler
    \/ \E first \in BOOLEAN : Run(first)
    \/ \E first \in BOOLEAN : ExtDispatch("IncrementRequested", first)
    \/ ScenarioInternal

ScenarioSpec ==
    ScenarioInit /\ [][ScenarioNext]_vars /\ WF_vars(ScenarioInternal)

\* what the Select of saga instance d has resolved with: the value selected,
\* or with no selector what the state holds under "counter"
Selected(d) ==
    IF tasks[d].res = StateV THEN counter ELSE tasks[d].res.n

\* C14: in the increment saga the Select resolves with 1, the Store's state
\* after the dispatch of the Put before it, and once run is called and an
\* IncrementRequested has been dispatched from outside, the saga completes
\* and run returns
C14_IncrementSagaSelectsOne ==
    /\ [](Resolved(Root, "Select") => Selected(Root) = 1)
    /\ (runState = "running" /\ nExt >= 1) ~> (runState = "returned")

\* the Select of the increment saga has resolved with 1 after one dispatch
\* from outside; the Increment put by the saga is on the channel
C14_Witness ==
    /\ Resolved(Root, "Select")
    /\ tasks[Root].res = IntV(1)
    /\ budget = 0
    /\ nExt = 1
    /\ queue = <<"Increment">>

-----------------------------------------------------------------------------
\* the Take calls that end with an action in this step
TakersNow == { t \in TreeIds : TakeEnds(t) }

\* C15: the channel changes only by one action appended or by its oldest
\* actions removed; the actions removed in one step go to at most one Take,
\* which resolves with the last of them, and the others, which that Take
\* does not match, are gone: nothing removed comes back to the channel or
\* goes to a second Take
C15_ExactlyOnceDelivery ==
    [][\/ /\ \E a \in ActionClasses : queue' = Append(queue, a)
          /\ TakersNow = {}
       \/ \E k \in 0 .. Len(queue) :
             /\ queue' = SubSeq(queue, k + 1, Len(queue))
             /\ Cardinality(TakersNow) <= 1
             /\ \A t \in TakersNow :
                   /\ k >= 1
                   /\ tasks'[t].res = ActionV(queue[k])
                   /\ \A j \in 1 .. k - 1 : ~PatMatch(tasks'[t].eff, queue[j])]_vars

\* two Takes wait on an empty channel after an action dispatched from outside
\* was dequeued by the one it does not match: the other, which it matches,
\* has not received it
C15_Witness ==
    /\ queue = <<>>
    /\ Len(getters) = 2
    /\ robbed # {}
    /\ nExt > 0

\* a producer call that has just started enqueues its action in this step:
\* no producer that had been woken is the one that ran
FreshAppend ==
    /\ \E a \in ActionClasses : queue' = Append(queue, a)
    /\ \A t \in TaskIds :
          tasks[t].st = "woken_put" => tasks'[t].st = "woken_put"

\* C16: the channel keeps the order of the producer calls: a call that has
\* just started does not enqueue its action while a call that started
\* before it is still suspended on the channel
C16_ProducerOrderKept ==
    [][FreshAppend =>
          \A u \in TaskIds : tasks[u].st \notin {"wait_put", "woken_put"}]_vars

\* C17: when the branch of a Race that settles first fails, the Race fails:
\* no saga instance is resumed with a Race result whose first entry, that of
\* the branch that settled first, is a failure
C17_RaceFailureRouted ==
    \A d \in TreeIds :
        Resolved(d, "Race") /\ tasks[d].res.l # <<>> =>
            ~IsError(tasks[d].res.l[1].l[1])

\* the runtime has cancelled task t: it has ended by cancellation, or it has
\* not ended and the TaskGroup it was created in has aborted, whose _abort
\* calls cancel() on each of its tasks that is not done (whether or not the
\* task has a TaskGroup of its own, and however it ends afterwards)
CancelledByGroup(t) ==
    \/ tasks[t].st = "cancelled"
    \/ /\ t \in TreeIds
       /\ Live(t)
       /\ Index(t) <= tasks[Parent(t)].n
       /\ tasks[Parent(t)].aborting

\* C18: no task is cancelled but the loser of a Race: a sub-effect task of
\* an All is never cancelled, whatever happens to its siblings
C18_OnlyRaceLosersCancelled ==
    \A t \in TaskIds : CancelledByGroup(t) => tasks[t].role = "run_effect"

\* C19: a failure is passed to each handler at most once: no handler is
\* invoked by a saga instance with the ExceptionGroup that wraps a failure
\* the instance it forked has already passed to the handlers
C19_HandlerOncePerFailure ==
    \A i, j \in 1 .. Len(handlerLog) :
        /\ handlerLog[i].by = Child(handlerLog[j].by, 1)
        /\ handlerLog[j].err.k = "Error"
        /\ handlerLog[j].err.s = "ExceptionGroup"
        => handlerLog[j].err.l[1] \notin
              { Raised(handlerLog[i].err, f) : f \in 0 .. 1 }

\* a task is suspended in a Race none of whose branches is still to settle
RaceSettledWaiting ==
    \E t \in TreeIds :
        /\ tasks[t].eff.kind = "Race"
        /\ tasks[t].st \in {"wait_race", "wait_exit"}
        /\ \A u \in Kids(t) : ~Live(u)

\* C20: under fair scheduling a Race whose branches have all settled
\* resolves, whatever the size of its mapping, the empty mapping included:
\* the saga instance that yielded it does not stay suspended
C20_SettledRaceResolves == []<>(~RaceSettledWaiting)

=============================================================================
